---- MODULE Spec2Model ----
(***************************************************************************)
(* Model of src/dashboard.py: a Dash application with six numeric          *)
(* dcc.Input widgets wired as Inputs of a single callback, update_graph,   *)
(* whose return value is the `figure` of the dcc.Graph.                    *)
(*                                                                         *)
(* One browser session is modelled.  A user edit that changes an Input     *)
(* property makes Dash post a callback request carrying the current value  *)
(* of all six Inputs; the development server started by app.run_server     *)
(* serves requests on separate threads, so several executions of           *)
(* update_graph may be running at once; the browser applies a response to  *)
(* the Graph unless a newer request for the same Output has been issued.   *)
(*                                                                         *)
(* Numbers are fixed point, in thousandths: 10 is 10000 and 0.03 is 30.    *)
(***************************************************************************)
EXTENDS Integers, Sequences, FiniteSets, TLC

VARIABLES
    widgets,        \* the value property of the six Inputs
    requests,       \* the callback requests posted so far, oldest first
    figure,         \* the figure property of the Graph
    shown,          \* the request whose figure the Graph shows, 0 for none
    edits,          \* the number of edits the user has made
    notifications,  \* the number of property changes the edits amounted to
    draws,          \* the number of figures put on the Graph
    burst           \* the number of changes that have arrived while the
                    \* evaluations now running have been running

vars == <<widgets, requests, figure, shown, edits, notifications, draws, burst>>

\* Number of user edits explored in one session.
MaxEdits == 2

\* One unit in the fixed-point representation of the numbers.
Scale == 1000

\* The value of an Input property: a number, or None.
Num(n) == [isNone |-> FALSE, num |-> n]

\* The value a type='number' dcc.Input reports when its text is empty or
\* does not parse: JSON null, None in the callback.
None == [isNone |-> TRUE, num |-> 0]

\* The text a user types into a widget: a number, or something else.
Raw(n) == [numeric |-> TRUE, num |-> n]

Invalid == [numeric |-> FALSE, num |-> 0]

\* The figure property of the Graph before any callback has returned.
NoFigure == [data |-> <<>>]

\* The ids of the six Inputs, in the order of the callback's argument list.
ParamIds == <<"gdp-A", "gdp-g", "inf-target", "inf-alpha", "unemp-natural", "unemp-beta">>

Params == {ParamIds[k] : k \in DOMAIN ParamIds}

\* initial_params, flattened to the ids of the widgets that show them.
initial_params ==
    [p \in Params |->
        CASE p = "gdp-A"         -> Num(10000)
          [] p = "gdp-g"         -> Num(30)
          [] p = "inf-target"    -> Num(2000)
          [] p = "inf-alpha"     -> Num(500)
          [] p = "unemp-natural" -> Num(4000)
          [] p = "unemp-beta"    -> Num(-500)]

\* The numbers a user types into a widget: its default, or one step away
\* (the step of the widget: 0.1, or 0.01 for gdp-g).
Step(p) == IF p = "gdp-g" THEN 10 ELSE 100

RawInputs(p) == {Raw(initial_params[p].num), Raw(initial_params[p].num + Step(p)), Invalid}

\* dcc.Input type='number': a text that is no number becomes None.
convert(raw) == IF raw.numeric THEN Num(raw.num) ELSE None

\* A range that stops one point early.
arange_short(lo, hi) == [k \in 1..(hi - lo - 1) |-> lo + k - 1]

\* np.arange(0, 11)
arange(lo, hi) == [k \in 1..(hi - lo) |-> lo + k - 1]

\* np.sin(years / 2) and np.cos(years / 3) at years 0..10, in thousandths.
SinHalf == <<0, 479, 841, 997, 909, 598, 141, -351, -757, -978, -959>>
CosThird == <<1000, 945, 786, 540, 235, -96, -416, -691, -889, -990, -982>>

\* The outcome of an arithmetic operation on None: no value, an exception.
TypeError == [raised |-> TRUE, values |-> <<>>]

Values(v) == [raised |-> FALSE, values |-> v]

\* A * (1 + g) ** t for one year t, by t multiplications, each rounded down
\* to thousandths; base is 1 + g.
RECURSIVE Grow(_, _, _)
Grow(A, base, t) == IF t = 0 THEN A ELSE (Grow(A, base, t - 1) * base) \div Scale

\* A formula that reads A from the widgets, not from its argument.
calculate_gdp_global(years, A, g) ==
    IF g = None \/ widgets["gdp-A"] = None THEN TypeError
    ELSE Values([k \in DOMAIN years |->
                    Grow(widgets["gdp-A"].num, Scale + g.num, years[k])])

calculate_gdp(years, A, g) ==
    IF g = None \/ A = None THEN TypeError
    ELSE Values([k \in DOMAIN years |-> Grow(A.num, Scale + g.num, years[k])])

calculate_inflation(years, pi_target, alpha) ==
    IF alpha = None \/ pi_target = None THEN TypeError
    ELSE Values([k \in DOMAIN years |->
                    pi_target.num + (alpha.num * SinHalf[years[k] + 1]) \div Scale])

calculate_unemployment(years, u_natural, beta) ==
    IF beta = None \/ u_natural = None THEN TypeError
    ELSE Values([k \in DOMAIN years |->
                    u_natural.num + (beta.num * CosThird[years[k] + 1]) \div Scale])

\* go.Scatter(x=years+2010, y=..., name=...) added at (row 1, col).
Scatter(years, y, name, col) ==
    [x |-> [k \in DOMAIN years |-> years[k] + 2010], y |-> y, name |-> name, col |-> col]

Raised(formula) == [status |-> "raised", formula |-> formula, fig |-> NoFigure]

Returned(fig) == [status |-> "ok", formula |-> "", fig |-> fig]

\* An update_graph that swallows the exception of a formula and returns the
\* traces it has.
update_graph_partial(args) ==
    LET years == arange(0, 11)
        gdp == calculate_gdp(years, args["gdp-A"], args["gdp-g"])
        inflation == calculate_inflation(years, args["inf-target"], args["inf-alpha"])
        unemployment ==
            calculate_unemployment(years, args["unemp-natural"], args["unemp-beta"])
        traces == <<[f |-> gdp, name |-> "GDP"], [f |-> inflation, name |-> "Inflation"],
                    [f |-> unemployment, name |-> "Unemployment"]>>
        good == SelectSeq(traces, LAMBDA t : ~t.f.raised)
    IN  Returned([data |-> [k \in DOMAIN good |->
                               Scatter(years, good[k].f.values, good[k].name, k)]])

\* The body of update_graph: the three formulas in order, then the figure
\* with the three traces; an exception raised by a formula leaves the
\* function at once, before any figure exists.
update_graph(args) ==
    LET years == arange(0, 11)
        gdp == calculate_gdp(years, args["gdp-A"], args["gdp-g"])
        inflation == calculate_inflation(years, args["inf-target"], args["inf-alpha"])
        unemployment ==
            calculate_unemployment(years, args["unemp-natural"], args["unemp-beta"])
    IN  IF gdp.raised THEN Raised("calculate_gdp")
        ELSE IF inflation.raised THEN Raised("calculate_inflation")
        ELSE IF unemployment.raised THEN Raised("calculate_unemployment")
        ELSE Returned([data |-> <<Scatter(years, gdp.values, "GDP", 1),
                                  Scatter(years, inflation.values, "Inflation", 2),
                                  Scatter(years, unemployment.values, "Unemployment", 3)>>])

NoResult == [status |-> "none", formula |-> "", fig |-> NoFigure]

\* The callback request Dash posts for the Output: the value of every Input
\* at the time of the post.
Request(values) ==
    [args |-> values, status |-> "sent", result |-> NoResult, outcome |-> "pending"]

Running == {i \in DOMAIN requests : requests[i].status = "running"}

Done == {i \in DOMAIN requests : requests[i].status = "done"}

InFlight == {i \in DOMAIN requests : requests[i].status # "done"}

Idle == InFlight = {}

\* A controller that keeps a change to itself while an evaluation runs.
DispatchesWhenIdle(running) == running = {}

\* Whether a change of an Input property posts a request: always, whatever
\* is running.
Dispatches(running) == TRUE

\* A widget that reports every edit as a change.
AlwaysChanged(old, new) == TRUE

\* Whether setting a widget from old to new is a property change.
PropChanged(old, new) == old # new

\* An evaluation that reads the widgets when it returns.
CallArgsLate(i) == widgets

\* The values update_graph is called with: those the request carries.
CallArgs(i) == requests[i].args

\* A browser that applies every figure it receives.
NeverRejected(i) == FALSE

\* Whether the browser discards the response of request i: a newer request
\* for the same Output has been issued.
IsRejected(i) == i < Len(requests)

\* A callback that hands an empty figure to the Graph when it fails.
DrawsOnErrorAlways == TRUE

\* Whether a response that raised reaches the Graph: never, the exception
\* leaves update_graph before its return.
DrawsOnError == FALSE

Init ==
    /\ widgets = initial_params
    /\ requests = <<Request(initial_params)>>
    /\ figure = NoFigure
    /\ shown = 0
    /\ edits = 0
    /\ notifications = 0
    /\ draws = 0
    /\ burst = 0

\* The user types raw into widget p.
SetProps(p, raw) ==
    /\ edits < MaxEdits
    /\ edits' = edits + 1
    /\ LET new == convert(raw) IN
        IF PropChanged(widgets[p], new)
        THEN /\ widgets' = [widgets EXCEPT ![p] = new]
             /\ notifications' = notifications + 1
             /\ burst' = IF Running # {} THEN burst + 1 ELSE burst
             /\ requests' = IF Dispatches(Running)
                            THEN Append(requests, Request(widgets'))
                            ELSE requests
        ELSE UNCHANGED <<widgets, notifications, requests, burst>>
    /\ UNCHANGED <<figure, shown, draws>>

\* A server thread enters update_graph for request i.
Begin(i) ==
    /\ i \in DOMAIN requests
    /\ requests[i].status = "sent"
    /\ requests' = [requests EXCEPT ![i].status = "running"]
    /\ UNCHANGED <<widgets, figure, shown, edits, notifications, draws, burst>>

\* update_graph returns its figure, or an exception leaves it, and the
\* browser handles the response of request i: an error is reported and the
\* Graph keeps its figure; a figure is put on the Graph unless the response
\* is rejected.
Finish(i) ==
    /\ i \in DOMAIN requests
    /\ requests[i].status = "running"
    /\ LET r == update_graph(CallArgs(i)) IN
        IF r.status = "raised" /\ ~DrawsOnError
        THEN /\ requests' = [requests EXCEPT ![i].status = "done", ![i].result = r,
                                             ![i].outcome = "error"]
             /\ UNCHANGED <<figure, shown, draws>>
        ELSE IF IsRejected(i)
        THEN /\ requests' = [requests EXCEPT ![i].status = "done", ![i].result = r,
                                             ![i].outcome = "dropped"]
             /\ UNCHANGED <<figure, shown, draws>>
        ELSE /\ requests' = [requests EXCEPT ![i].status = "done", ![i].result = r,
                                             ![i].outcome = "drawn"]
             /\ figure' = r.fig
             /\ shown' = i
             /\ draws' = draws + 1
    /\ burst' = 0
    /\ UNCHANGED <<widgets, edits, notifications>>

Next ==
    \/ \E p \in Params : \E raw \in RawInputs(p) : SetProps(p, raw)
    \/ \E i \in 1..(MaxEdits + 1) : Begin(i)
    \/ \E i \in 1..(MaxEdits + 1) : Finish(i)

Spec == Init /\ [][Next]_vars

\* The server keeps serving: while a request is waiting or running, some
\* request is eventually begun or answered.
Serve == \E i \in 1..(MaxEdits + 1) : Begin(i) \/ Finish(i)

FairSpec == Spec /\ WF_vars(Serve)

(***************************************************************************)
(* Helpers of the properties.                                              *)
(***************************************************************************)

Succeeded == {i \in Done : requests[i].result.status = "ok"}

Failed == {i \in Done : requests[i].result.status = "raised"}

HasNone(values) == \E p \in Params : values[p] = None

\* The requests posted for the changes that have arrived since an
\* evaluation last returned, each while the evaluations now running were
\* running; each is a recompute of its own.
BurstRequests == {i \in DOMAIN requests : i > Len(requests) - burst}

\* A request has just been posted in this step.
Posted == Len(requests') = Len(requests) + 1

\* Request i has returned in this step.
Finishes(i) == requests[i].status = "running" /\ requests'[i].status = "done"

\* A figure as update_graph builds it: three traces, GDP, Inflation and
\* Unemployment in columns 1 to 3, each over the years 2010..2020.
WellFormed(fig) ==
    /\ Len(fig.data) = 3
    /\ <<fig.data[1].name, fig.data[2].name, fig.data[3].name>>
         = <<"GDP", "Inflation", "Unemployment">>
    /\ \A k \in 1..3 :
        /\ fig.data[k].col = k
        /\ fig.data[k].x = [t \in 1..11 |-> 2009 + t]
        /\ Len(fig.data[k].y) = Len(fig.data[k].x)
        /\ Len(fig.data[k].y) = 11

(***************************************************************************)
(* C1.  Coalescing, as claimed: the changes that arrive while an          *)
(* evaluation is running, however many, get one recompute between them.    *)
(***************************************************************************)
C1_Coalescing == Running # {} => Cardinality(BurstRequests) <= 1

\* C1, amended: every change event posts its own request, whatever is
\* running, so N changes start N recomputes; each request carries the
\* values as they stand right after its own change, and the newest request
\* always carries the current values.
C1_OneRecomputePerChange ==
    /\ [](Len(requests) = notifications + 1)
    /\ [](requests[Len(requests)].args = widgets)
    /\ [][notifications' = notifications + 1
           => /\ Posted
              /\ requests'[Len(requests')] = Request(widgets')
              /\ \A i \in DOMAIN requests : requests'[i] = requests[i]]_vars

\* Two changes arrived while the initial evaluation was running, and each
\* has had a recompute of its own started.
C1_Witness ==
    /\ Len(requests) = 3
    /\ burst = 2
    /\ requests[1].status = "running"
    /\ requests[2].status # "sent"
    /\ requests[3].status # "sent"
    /\ requests[2].args # requests[3].args

C4_InvalidInputRejected ==
    /\ ~HasNone(widgets)
    /\ \A i \in DOMAIN requests : ~HasNone(requests[i].args)

(***************************************************************************)
(* C5.  All or nothing: an evaluation in which a formula failed yields no  *)
(* figure, and its return leaves the Graph as it was; what the Graph shows *)
(* is either nothing or the complete figure of one single request.         *)
(***************************************************************************)
C5_AllOrNothing ==
    /\ [](\A i \in Done : HasNone(requests[i].args)
            => /\ requests[i].result.fig = NoFigure
               /\ requests[i].outcome = "error"
               /\ shown # i)
    /\ [](IF shown = 0 THEN figure = NoFigure
          ELSE /\ Len(figure.data) = 3
               /\ ~HasNone(requests[shown].args)
               /\ figure = update_graph(requests[shown].args).fig)
    /\ [][\A i \in DOMAIN requests :
            (Finishes(i) /\ HasNone(requests[i].args))
                => (figure' = figure /\ shown' = shown)]_vars

\* An evaluation failed after a figure had been drawn, and the Graph still
\* shows that figure.
C5_Witness ==
    \E i \in Failed :
        /\ shown # 0
        /\ shown < i
        /\ figure = update_graph(requests[shown].args).fig
        /\ figure # NoFigure

(***************************************************************************)
(* C6.  Failures are contained, as claimed: no exception leaves            *)
(* update_graph.                                                           *)
(***************************************************************************)
C6_NoExceptionEscapes ==
    \A i \in DOMAIN requests : requests[i].result.status # "raised"

C10_BundleShape ==
    /\ \A i \in Succeeded : WellFormed(requests[i].result.fig)
    /\ shown # 0 => WellFormed(figure)

\* A figure is on the Graph, and it is not the one of the default values.
C10_Witness ==
    /\ shown # 0
    /\ figure # NoFigure
    /\ figure # update_graph(initial_params).fig

====
